---- MODULE Spec2Model ----
(***************************************************************************)
(* A model of src/src/observer.js (mobx-react's observer binding).         *)
(*                                                                         *)
(* The program's own state is modelled directly: the two process-wide      *)
(* flags, the node registry, the render reporter, the hooks patched onto a *)
(* component prototype, and, per mounted instance, the closure variables   *)
(* that reactiveMixin.componentWillMount creates (reaction,                *)
(* isRenderingPending) and the fields it stashes on the instance.          *)
(*                                                                         *)
(* React (the host) and mobx (the tracker) are external: the host is the   *)
(* environment that calls the lifecycle hooks and runs forceUpdate, the    *)
(* tracker records what a render read and calls the reaction's callback    *)
(* when one of those observables changes.                                  *)
(***************************************************************************)
EXTENDS Integers, Sequences, FiniteSets, TLC

(***************************************************************************)
(* Bounds of the model.                                                    *)
(***************************************************************************)
\* how many times observer() may be applied to the same component class
MaxDecorations == 2
\* how many keys a props object of the Update Gate specification may hold
MaxPropKeys == 2
\* the counters of invalidations and forceUpdate requests stop here
MaxCount == 2

(***************************************************************************)
(* Value domains.                                                          *)
(***************************************************************************)
HookNames ==
  {"componentWillMount", "componentWillUnmount", "componentDidMount", "componentDidUpdate"}

\* observable values a render may read
Observables == {"x", "y"}

\* output handles (DOM nodes); findDOMNode may also answer "null"
Nodes == {"n1"}

\* errors a forced update may throw
Errors == {"E1", "E2"}

\* what the first argument of observer() may be
Arg1Kinds == {"string", "array", "null", "falsy", "class", "function"}
\* what the second argument of observer() may be: absent/falsy, a non-empty
\* string, the component class, a stateless function
Arg2Kinds == {"absent", "string", "class", "function"}

(***************************************************************************)
(* State.                                                                  *)
(***************************************************************************)
VARIABLES
  isDevtoolsEnabled,        \* let isDevtoolsEnabled
  isUsingStaticRendering,   \* let isUsingStaticRendering
  componentByNodeRegistery, \* WeakMap<Node, Object>: Nodes -> "none" | "inst"
  proto,                    \* the user's component class C and its prototype
  inst,                     \* the one instance of C the host mounts
  hist,                     \* what has happened to the instance so far
  last                      \* what the last operation did (calls, events, errors)

vars ==
  <<isDevtoolsEnabled, isUsingStaticRendering, componentByNodeRegistery,
    proto, inst, hist, last>>

(***************************************************************************)
(* The operations are written as functions from a world to a world: a      *)
(* world is a record of every variable but `last`, plus `eff`, the record  *)
(* of what the running operation has done so far (it becomes `last`).      *)
(***************************************************************************)
\* no class has been made by React.createClass
NoWrapper ==
  [ made |-> FALSE,
    hooks |-> [h \in HookNames |-> <<>>],
    shouldComponentUpdate |-> "none",
    isMobXReactObserver |-> FALSE ]

NoEffect(op) ==
  [ op          |-> op,
    error       |-> "none",    \* the error that left the operation
    ret         |-> "none",    \* what the operation returned
    made        |-> NoWrapper, \* the class observer() made for a stateless function
    calls       |-> <<>>,      \* hook functions run: [fn, this, args]
    events      |-> <<>>,      \* renderReporter.emit: [event, component, node]
    warned      |-> FALSE,     \* the static-rendering console.warn
    args        |-> <<>>,      \* the arguments of observer() or shouldComponentUpdate()
    hookName    |-> "none",    \* the lifecycle hook the host called
    invalidated |-> 0,         \* the closure whose reaction callback was called (0: none)
    hookResult  |-> "none",    \* how the componentWillReact call ended (none: not called)
    reads       |-> {},        \* what the tracked render read
    fu          |-> 0,         \* forceUpdate requests made
    fuError     |-> "none",    \* the error the forceUpdate call threw
    renders     |-> 0,         \* executions of reactiveRender
    baseRenders |-> 0,         \* executions of the component's own render
    gate        |-> FALSE,     \* reactiveMixin.shouldComponentUpdate was called
    order       |-> <<>> ]     \* what the reaction callback did, in order

World(op) ==
  [ dev     |-> isDevtoolsEnabled,
    static  |-> isUsingStaticRendering,
    reg     |-> componentByNodeRegistery,
    proto   |-> proto,
    inst    |-> inst,
    hist    |-> hist,
    eff     |-> NoEffect(op) ]

Commit(w) ==
  /\ isDevtoolsEnabled' = w.dev
  /\ isUsingStaticRendering' = w.static
  /\ componentByNodeRegistery' = w.reg
  /\ proto' = w.proto
  /\ inst' = w.inst
  /\ hist' = w.hist
  /\ last' = w.eff

\* throw: the error leaves the running operation
Throw(w, e) == [w EXCEPT !.eff.error = e]

Min(a, b) == IF a < b THEN a ELSE b

(***************************************************************************)
(* trackComponents, useStaticRendering                                     *)
(***************************************************************************)
\* componentByNodeRegistery exists (a WeakMap is available), so the call
\* never throws here
trackComponents(w) ==
  IF ~w.dev THEN [w EXCEPT !.dev = TRUE] ELSE w

useStaticRendering(w, useStatic) ==
  [w EXCEPT !.static = useStatic]

(***************************************************************************)
(* patch: a hook is the sequence of the functions it runs, in order.       *)
(* function() { base.apply(this, arguments);                               *)
(*              mixinFunc.apply(this, arguments) }   is   base \o <<mixin>> *)
(***************************************************************************)
\* faulty variant: a patch that runs the mixin's function before the base
patch_mixinFirst(target, funcName) ==
  LET base == target.hooks[funcName]
      mixinFunc == "mixin"
  IN  IF base = <<>>
        THEN [target EXCEPT !.hooks[funcName] = <<mixinFunc>>]
        ELSE [target EXCEPT !.hooks[funcName] = <<mixinFunc>> \o base]

patch(target, funcName) ==
  LET base == target.hooks[funcName]
      mixinFunc == "mixin"
  IN  IF base = <<>>
        THEN [target EXCEPT !.hooks[funcName] = <<mixinFunc>>]
        ELSE [target EXCEPT !.hooks[funcName] = base \o <<mixinFunc>>]

\* the forEach of observer(): the four hooks are patched in this order
PatchOrder ==
  <<"componentWillMount", "componentWillUnmount", "componentDidMount", "componentDidUpdate">>

RECURSIVE patchAll(_, _)
patchAll(target, i) ==
  IF i > Len(PatchOrder) THEN target
  ELSE patchAll(patch(target, PatchOrder[i]), i + 1)

\* faulty variant: a decoration that replaces a shouldComponentUpdate of the
\* class's own
decorate_overridesGate(target) ==
  LET patched == patchAll(target, 1)
      gated == [patched EXCEPT !.shouldComponentUpdate = "mixin"]
  IN  [gated EXCEPT !.isMobXReactObserver = TRUE]

\* lines 236-249 of observer(): patch, install the Update Gate, mark
decorate(target) ==
  LET patched == patchAll(target, 1)
      gated == IF patched.shouldComponentUpdate = "none"
                 THEN [patched EXCEPT !.shouldComponentUpdate = "mixin"]
                 ELSE patched
  IN  [gated EXCEPT !.isMobXReactObserver = TRUE]

\* React.createClass({displayName, propTypes, contextTypes, getDefaultProps, render}):
\* a fresh class with a render and no lifecycle hook of its own
createClass ==
  [ made |-> TRUE,
    hooks |-> [h \in HookNames |-> <<>>],
    shouldComponentUpdate |-> "none",
    isMobXReactObserver |-> FALSE ]

(***************************************************************************)
(* observer(arg1, arg2)                                                    *)
(***************************************************************************)
RECURSIVE observer(_, _, _)

\* faulty variant: an observer() without the test for a string as store names
observer_noStringCheck(w, arg1, arg2) ==
  IF arg1 = "string" THEN
    [w EXCEPT !.eff.ret = "component"]
  ELSE IF arg1 = "array" THEN
    IF arg2 = "absent" THEN
      [w EXCEPT !.eff.ret = "decorator"]
    ELSE
      LET inner == observer(w, arg2, "absent")
      IN  IF inner.eff.error # "none" THEN inner
          ELSE [inner EXCEPT !.eff.ret = "injected"]
  ELSE IF arg1 = "null" THEN
    Throw(w, "TypeError")
  ELSE IF arg1 = "function" THEN
    observer([w EXCEPT !.eff.made = createClass], "wrapperClass", "absent")
  ELSE IF arg1 = "falsy" THEN
    Throw(w, "InvalidComponentError")
  ELSE IF arg1 = "wrapperClass" THEN
    [w EXCEPT !.eff.made = decorate(w.eff.made), !.eff.ret = "component"]
  ELSE
    [w EXCEPT !.proto = decorate(w.proto), !.eff.ret = "component"]

observer(w, arg1, arg2) ==
  IF arg1 = "string" THEN
    Throw(w, "StoreNamesError")
  ELSE IF arg1 = "array" THEN
    IF arg2 = "absent" THEN
      \* invoked as decorator: componentClass => observer(arg1, componentClass)
      [w EXCEPT !.eff.ret = "decorator"]
    ELSE
      \* inject.apply(null, arg1)(observer(arg2))
      LET inner == observer(w, arg2, "absent")
      IN  IF inner.eff.error # "none" THEN inner
          ELSE [inner EXCEPT !.eff.ret = "injected"]
  ELSE IF arg1 = "null" THEN
    \* componentClass.isInjector of null or undefined
    Throw(w, "TypeError")
  ELSE IF arg1 = "function" THEN
    \* a stateless function: wrap it in a class, decorate the class
    observer([w EXCEPT !.eff.made = createClass], "wrapperClass", "absent")
  ELSE IF arg1 = "falsy" THEN
    Throw(w, "InvalidComponentError")
  ELSE IF arg1 = "wrapperClass" THEN
    [w EXCEPT !.eff.made = decorate(w.eff.made), !.eff.ret = "component"]
  ELSE
    [w EXCEPT !.proto = decorate(w.proto), !.eff.ret = "component"]

\* how many times the mixin's hook has been composed into the class
Decorations(target) ==
  Cardinality({i \in DOMAIN target.hooks["componentWillMount"] :
                 target.hooks["componentWillMount"][i] = "mixin"})

\* whether observer(arg1, arg2) reaches the decoration of class C
DecoratesClass(arg1, arg2) ==
  arg1 = "class" \/ (arg1 = "array" /\ arg2 = "class")

(***************************************************************************)
(* Props and the Update Gate.  A props object is the sequence of its       *)
(* [k, v] pairs in Object.keys order, keys distinct.  Values: "undef" is   *)
(* undefined, "p1" a primitive, "obj" a plain (non-observable) object,     *)
(* "obs" an observable object; equal names are the same reference.         *)
(***************************************************************************)
PropKeys == {"", "a", "b"}
PropValues == {"undef", "p1", "obj", "obs"}
StateRefs == {"s0", "s1"}

\* the props objects of up to MaxPropKeys keys
PropObjects ==
  UNION { { obj \in [1..n -> [k : PropKeys, v : PropValues]] :
              \A i, j \in 1..n : i # j => obj[i].k # obj[j].k } : n \in 0..MaxPropKeys }

ObjectKeys(obj) == [i \in DOMAIN obj |-> obj[i].k]

HasKey(obj, key) == \E i \in DOMAIN obj : obj[i].k = key

\* obj[key]: undefined for a key the object does not hold
Get(obj, key) ==
  IF HasKey(obj, key)
    THEN (CHOOSE e \in {obj[i] : i \in DOMAIN obj} : e.k = key).v
    ELSE "undef"

IsTruthy(v) == v # "undef"
IsObjectType(v) == v \in {"obj", "obs"}
isObservable(v) == v = "obs"

\* the loop of shouldComponentUpdate, from index i down:
\*   for (let i = keys.length - 1; i >= 0, key = keys[i]; i--)
\* it runs while the key is truthy: keys[-1] is undefined, "" is falsy
RECURSIVE propsLoop(_, _, _, _)
propsLoop(keys, i, props, nextProps) ==
  IF i < 1 \/ keys[i] = "" THEN FALSE
  ELSE LET key == keys[i]
           newValue == Get(nextProps, key)
       IN  IF newValue # Get(props, key) THEN TRUE
           ELSE IF IsTruthy(newValue) /\ IsObjectType(newValue) /\ ~isObservable(newValue)
             THEN TRUE
           ELSE propsLoop(keys, i - 1, props, nextProps)

\* what reactiveMixin.shouldComponentUpdate returns: TRUE is "must update"
mustUpdate(props, state, nextProps, nextState) ==
  IF state # nextState THEN TRUE
  ELSE LET keys == ObjectKeys(props)
       IN  IF Len(keys) # Len(ObjectKeys(nextProps)) THEN TRUE
           ELSE propsLoop(keys, Len(keys), props, nextProps)

(***************************************************************************)
(* The instance.                                                           *)
(*   phase    where the host is with it                                    *)
(*   render   this.render: the class's own render ("base"), or the         *)
(*            initialRender / reactiveRender of closure k                  *)
(*   closures one per run of reactiveMixin.componentWillMount: the         *)
(*            closure's reaction, isRenderingPending and baseRender, and   *)
(*            the observables the reaction is subscribed to                *)
(***************************************************************************)
NoInstance ==
  [ phase           |-> "none",
    render          |-> [kind |-> "base", k |-> 0],
    closures        |-> <<>>,
    mobxIsUnmounted |-> FALSE,
    props           |-> <<>>,
    state           |-> "s0",
    forceQueued     |-> FALSE,
    node            |-> "null" ]

NoHistory ==
  [ mountMode       |-> "none",  \* what the mixin's componentWillMount did
    willUnmountRan  |-> FALSE,   \* the mixin's componentWillUnmount has run
    created         |-> 0,       \* Reaction objects constructed
    lastReads       |-> {},      \* what the last tracked render that returned had read
    hookThrew       |-> FALSE,   \* componentWillReact threw since the last reactiveRender
    fuFailed        |-> FALSE,   \* a forceUpdate called by the reaction callback threw
    renderThrew     |-> FALSE,   \* the last execution of reactiveRender threw
    invSinceRender  |-> 0,       \* callback calls since the last reactiveRender
    fuSinceRender   |-> 0 ]      \* forceUpdate requests since the last reactiveRender

\* reactiveMixin.shouldComponentUpdate.call(instance, nextProps, nextState)
shouldComponentUpdate(w, nextProps, nextState) ==
  [w EXCEPT !.eff.gate = TRUE,
            !.eff.warned = (w.static # FALSE),
            !.eff.ret = IF mustUpdate(w.inst.props, w.inst.state, nextProps, nextState)
                          THEN "update" ELSE "skip"]

Emit(w, ev) == [w EXCEPT !.eff.events = Append(@, ev)]

findDOMNode(w) == w.inst.node

reportRendering(w) ==
  LET node == findDOMNode(w)
      w1 == IF node # "null" THEN [w EXCEPT !.reg[node] = "inst"] ELSE w
  IN  Emit(w1, [event |-> "render", component |-> "inst", node |-> node])

\* reaction.dispose(): the reaction stops observing and never fires again
dispose(w, k) ==
  [w EXCEPT !.inst.closures[k].reaction = "disposed",
            !.inst.closures[k].deps = {}]

(***************************************************************************)
(* Rendering.  `in` holds what the environment decides for one render:     *)
(*   reads  the observables the component's render reads                   *)
(*   ok     whether the component's render returns (else it throws in.err) *)
(*   node   the output handle findDOMNode answers after the render         *)
(*   user   whether the user's own lifecycle hook returns or throws        *)
(***************************************************************************)
RECURSIVE callRender(_, _, _)
RECURSIVE initialRender(_, _, _)
RECURSIVE reactiveRender(_, _, _)

\* this.render(), or a closure's baseRender(): ptr says which function it is
callRender(w, ptr, in) ==
  IF ptr.kind = "initial" THEN initialRender(w, ptr.k, in)
  ELSE IF ptr.kind = "reactive" THEN reactiveRender(w, ptr.k, in)
  ELSE \* the class's own render
    LET w1 == [w EXCEPT !.eff.baseRenders = @ + 1]
    IN  IF in.ok THEN w1 ELSE Throw(w1, in.err)

\* const initialRender = () => { reaction = new mobx.Reaction(...);
\*   reactiveRender.$mobx = reaction; this.render = reactiveRender;
\*   return reactiveRender() }
initialRender(w, k, in) ==
  LET w1 == [w EXCEPT !.inst.closures[k].reaction = "live",
                      !.inst.closures[k].deps = {},
                      !.hist.created = @ + 1,
                      !.inst.render = [kind |-> "reactive", k |-> k]]
  IN  reactiveRender(w1, k, in)

\* faulty variant: a reactiveRender whose reaction keeps what earlier renders read
reactiveRender_keepsEarlierReads(w, k, in) ==
  LET w1 == [w EXCEPT !.inst.closures[k].isRenderingPending = FALSE,
                      !.eff.renders = @ + 1,
                      !.hist.hookThrew = FALSE,
                      !.hist.invSinceRender = 0,
                      !.hist.fuSinceRender = 0]
      baseRender == w1.inst.closures[k].baseRender
      w2 == callRender(w1, baseRender, in)
      observed == IF baseRender.kind = "base" THEN in.reads ELSE {}
  IN  IF w2.eff.error # "none" THEN [w2 EXCEPT !.hist.renderThrew = TRUE]
      ELSE IF w2.inst.closures[k].reaction = "disposed"
        THEN [w2 EXCEPT !.hist.renderThrew = FALSE]
      ELSE [w2 EXCEPT !.inst.closures[k].deps = @ \cup observed,
                      !.eff.reads = IF baseRender.kind = "base" THEN observed ELSE @,
                      !.hist.lastReads = IF baseRender.kind = "base" THEN observed ELSE @,
                      !.hist.renderThrew = FALSE]

\* const reactiveRender = () => { isRenderingPending = false;
\*   reaction.track(() => { ... rendering = baseRender() ... }); return rendering }
\* track: the reads made directly in the tracked function become the
\* reaction's dependencies; a nested tracked function keeps its own reads;
\* a function that throws leaves the dependencies as they were; a disposed
\* reaction observes nothing
reactiveRender(w, k, in) ==
  LET w1 == [w EXCEPT !.inst.closures[k].isRenderingPending = FALSE,
                      !.eff.renders = @ + 1,
                      !.hist.hookThrew = FALSE,
                      !.hist.invSinceRender = 0,
                      !.hist.fuSinceRender = 0]
      baseRender == w1.inst.closures[k].baseRender
      w2 == callRender(w1, baseRender, in)
      observed == IF baseRender.kind = "base" THEN in.reads ELSE {}
  IN  IF w2.eff.error # "none" THEN [w2 EXCEPT !.hist.renderThrew = TRUE]
      ELSE IF w2.inst.closures[k].reaction = "disposed"
        THEN [w2 EXCEPT !.hist.renderThrew = FALSE]
      ELSE [w2 EXCEPT !.inst.closures[k].deps = observed,
                      !.eff.reads = IF baseRender.kind = "base" THEN observed ELSE @,
                      !.hist.lastReads = IF baseRender.kind = "base" THEN observed ELSE @,
                      !.hist.renderThrew = FALSE]

(***************************************************************************)
(* reactiveMixin                                                           *)
(***************************************************************************)
\* faulty variant: the hook without `if (isUsingStaticRendering === true) return`
componentWillMount_noStaticCheck(w) ==
  LET w0 == [w EXCEPT !.hist.mountMode = IF w.static = TRUE THEN "static" ELSE "tracked"]
      closure == [ reaction           |-> "null",
                   isRenderingPending |-> FALSE,
                   baseRender         |-> w0.inst.render,
                   deps               |-> {} ]
      k == Len(w0.inst.closures) + 1
  IN  [w0 EXCEPT !.inst.closures = Append(@, closure),
                 !.inst.render = [kind |-> "initial", k |-> k]]

\* hist.mountMode: whether static rendering was active when the hook ran
componentWillMount(w) ==
  LET w0 == [w EXCEPT !.hist.mountMode = IF w.static = TRUE THEN "static" ELSE "tracked"]
  IN
  IF w0.static = TRUE THEN w0
  ELSE
    LET closure == [ reaction           |-> "null",
                     isRenderingPending |-> FALSE,
                     baseRender         |-> w0.inst.render,
                     deps               |-> {} ]
        k == Len(w0.inst.closures) + 1
    IN  [w0 EXCEPT !.inst.closures = Append(@, closure),
                   !.inst.render = [kind |-> "initial", k |-> k]]

\* this.render.$mobx: only a reactiveRender carries it (set by initialRender)
componentWillUnmount(w) ==
  LET w0 == [w EXCEPT !.hist.willUnmountRan = TRUE]
  IN
  IF w0.static = TRUE THEN w0
  ELSE
    LET w1 == IF w0.inst.render.kind = "reactive"
                THEN dispose(w0, w0.inst.render.k)
                ELSE w0
        w2 == [w1 EXCEPT !.inst.mobxIsUnmounted = TRUE]
    IN  IF w2.dev THEN
          LET node == findDOMNode(w2)
              w3 == IF node # "null" THEN [w2 EXCEPT !.reg[node] = "none"] ELSE w2
          IN  Emit(w3, [event |-> "destroy", component |-> "inst", node |-> node])
        ELSE w2

componentDidMount(w) ==
  IF w.dev THEN reportRendering(w) ELSE w

componentDidUpdate(w) ==
  IF w.dev THEN reportRendering(w) ELSE w

\* reactiveMixin[funcName] applied to the instance
mixinFunc(w, funcName) ==
  CASE funcName = "componentWillMount"   -> componentWillMount(w)
    [] funcName = "componentWillUnmount" -> componentWillUnmount(w)
    [] funcName = "componentDidMount"    -> componentDidMount(w)
    [] funcName = "componentDidUpdate"   -> componentDidUpdate(w)

(***************************************************************************)
(* Calling a patched hook: base.apply(this, arguments), then               *)
(* mixinFunc.apply(this, arguments).  A user's hook that throws ends the   *)
(* call: what follows it does not run.                                     *)
(***************************************************************************)
RECURSIVE runHook(_, _, _, _, _, _)
runHook(w, funcName, i, this, args, user) ==
  LET fns == w.proto.hooks[funcName]
  IN  IF i > Len(fns) THEN w
      ELSE
        LET w1 == [w EXCEPT !.eff.calls =
                     Append(@, [fn |-> fns[i], this |-> this, args |-> args])]
        IN  IF fns[i] = "user" THEN
              IF user = "throw" THEN Throw(w1, "UserHookError")
              ELSE runHook(w1, funcName, i + 1, this, args, user)
            ELSE runHook(mixinFunc(w1, funcName), funcName, i + 1, this, args, user)

\* the arguments the host passes to each hook
HookArgs(funcName) ==
  IF funcName = "componentDidUpdate" THEN <<"prevProps", "prevState">> ELSE <<>>

\* the host calls instance[funcName](...args)
invokeHook(w, funcName, user) ==
  runHook([w EXCEPT !.eff.hookName = funcName], funcName, 1, "inst", HookArgs(funcName), user)

(***************************************************************************)
(* The host (React).                                                       *)
(***************************************************************************)
\* the host unmounts the instance: it calls componentWillUnmount and drops
\* whatever update it had queued for the instance
hostUnmount(w, user) ==
  LET w1 == invokeHook(w, "componentWillUnmount", user)
  IN  [w1 EXCEPT !.inst.phase = "unmounted", !.inst.forceQueued = FALSE]

\* the host re-renders the instance: this.render(), commit, componentDidUpdate
performUpdate(w, in) ==
  LET w0 == [w EXCEPT !.inst.forceQueued = FALSE]
      w1 == callRender(w0, w0.inst.render, in)
  IN  IF w1.eff.error # "none" THEN w1
      ELSE invokeHook([w1 EXCEPT !.inst.node = in.node], "componentDidUpdate", in.user)

\* faulty variant: a forceUpdate that asks the Update Gate first
forceUpdate_consultsGate(w, in) ==
  LET w0 == shouldComponentUpdate(w, w.inst.props, w.inst.state)
      w1 == [w0 EXCEPT !.eff.fu = @ + 1,
                       !.eff.order = Append(@, "forceUpdate"),
                       !.hist.fuSinceRender = Min(@ + 1, MaxCount)]
  IN  IF w1.inst.phase \notin {"rendered", "mounted"} THEN w1
      ELSE IF w1.eff.ret = "skip" THEN w1
      ELSE IF w1.inst.phase = "rendered" \/ in.mode = "deferred"
        THEN [w1 EXCEPT !.inst.forceQueued = TRUE]
      ELSE IF in.mode = "throw" THEN Throw(w1, in.err)
      ELSE performUpdate(w1, in)

\* React.Component.prototype.forceUpdate.call(this): ignored for an instance
\* the host does not hold, queued while the host is batching (in.mode
\* "deferred", and always before componentDidMount), else performed at once
forceUpdate(w, in) ==
  LET w1 == [w EXCEPT !.eff.fu = @ + 1,
                      !.eff.order = Append(@, "forceUpdate"),
                      !.hist.fuSinceRender = Min(@ + 1, MaxCount)]
  IN  IF w1.inst.phase \notin {"rendered", "mounted"} THEN w1
      ELSE IF w1.inst.phase = "rendered" \/ in.mode = "deferred"
        THEN [w1 EXCEPT !.inst.forceQueued = TRUE]
      ELSE IF in.mode = "throw" THEN Throw(w1, in.err)
      ELSE performUpdate(w1, in)

\* the user's componentWillReact: it returns, throws, or has the instance
\* unmounted
componentWillReact(w, in) ==
  LET w1 == [w EXCEPT !.eff.hookResult = in.hook,
                      !.eff.order = Append(@, "componentWillReact")]
  IN  IF in.hook = "throw" THEN Throw([w1 EXCEPT !.hist.hookThrew = TRUE], "HookError")
      ELSE IF in.hook = "unmount" THEN hostUnmount(w1, in.user)
      ELSE w1

(***************************************************************************)
(* The callback given to new mobx.Reaction(name, () => {...}) by closure k *)
(***************************************************************************)
\* faulty variant: the body without the try/finally that disposes the reaction
scheduleRender_noDispose(w, k, in) ==
  LET w1 == [w EXCEPT !.inst.closures[k].isRenderingPending = TRUE,
                      !.eff.order = Append(@, "isRenderingPending")]
      w2 == IF w1.proto.componentWillReact THEN componentWillReact(w1, in) ELSE w1
  IN  IF w2.eff.error # "none" THEN w2
      ELSE IF w2.inst.mobxIsUnmounted # TRUE THEN
        LET w3 == forceUpdate(w2, in)
        IN  [w3 EXCEPT !.eff.fuError = w3.eff.error,
                       !.hist.fuFailed = @ \/ w3.eff.error # "none"]
      ELSE w2

\* faulty variant: the body without `isRenderingPending = true`
scheduleRender_flagNotSet(w, k, in) ==
  LET w1 == [w EXCEPT !.eff.order = Append(@, "isRenderingPending")]
      w2 == IF w1.proto.componentWillReact THEN componentWillReact(w1, in) ELSE w1
  IN  IF w2.eff.error # "none" THEN w2
      ELSE IF w2.inst.mobxIsUnmounted # TRUE THEN
        LET w3 == forceUpdate(w2, in)
            hasError == w3.eff.error # "none"
            w4 == [w3 EXCEPT !.eff.fuError = w3.eff.error,
                             !.hist.fuFailed = @ \/ hasError]
        IN  IF hasError THEN dispose(w4, k) ELSE w4
      ELSE w2

\* faulty variant: the body without `if (this.__$mobxIsUnmounted !== true)`
scheduleRender_noUnmountedCheck(w, k, in) ==
  LET w1 == [w EXCEPT !.inst.closures[k].isRenderingPending = TRUE,
                      !.eff.order = Append(@, "isRenderingPending")]
      w2 == IF w1.proto.componentWillReact THEN componentWillReact(w1, in) ELSE w1
  IN  IF w2.eff.error # "none" THEN w2
      ELSE
        LET w3 == forceUpdate(w2, in)
            hasError == w3.eff.error # "none"
            w4 == [w3 EXCEPT !.eff.fuError = w3.eff.error,
                             !.hist.fuFailed = @ \/ hasError]
        IN  IF hasError THEN dispose(w4, k) ELSE w4

\* the body of `if (!isRenderingPending) { ... }`
scheduleRender(w, k, in) ==
  LET w1 == [w EXCEPT !.inst.closures[k].isRenderingPending = TRUE,
                      !.eff.order = Append(@, "isRenderingPending")]
      w2 == IF w1.proto.componentWillReact THEN componentWillReact(w1, in) ELSE w1
  IN  IF w2.eff.error # "none" THEN w2
      ELSE IF w2.inst.mobxIsUnmounted # TRUE THEN
        LET w3 == forceUpdate(w2, in)
            hasError == w3.eff.error # "none"
            w4 == [w3 EXCEPT !.eff.fuError = w3.eff.error,
                             !.hist.fuFailed = @ \/ hasError]
        IN  IF hasError THEN dispose(w4, k) ELSE w4
      ELSE w2

\* the callback called: its call is counted
called(w, k) ==
  [w EXCEPT !.eff.invalidated = k,
            !.hist.invSinceRender = Min(@ + 1, MaxCount)]

\* faulty variant: the callback without `if (!isRenderingPending)`
onInvalidate_alwaysSchedules(w, k, in) ==
  scheduleRender(called(w, k), k, in)

onInvalidate(w, k, in) ==
  IF ~w.inst.closures[k].isRenderingPending
    THEN scheduleRender(called(w, k), k, in)
    ELSE called(w, k)

(***************************************************************************)
(* Inputs the environment chooses.                                         *)
(***************************************************************************)
In(reads, ok, node, err, user, hook, mode) ==
  [ reads |-> reads, ok |-> ok, node |-> node, err |-> err,
    user |-> user, hook |-> hook, mode |-> mode ]

NoInput == In({}, TRUE, "null", "none", "ok", "ok", "sync")

\* whether the class's hook funcName runs a hook of the user's
HasUserHook(funcName) ==
  \E i \in DOMAIN proto.hooks[funcName] : proto.hooks[funcName][i] = "user"

UserOutcomes(funcName) ==
  IF HasUserHook(funcName) THEN {"ok", "throw"} ELSE {"ok"}

\* a render that returns, followed by the hook funcName
GoodRenders(funcName) ==
  { In(r, TRUE, n, "none", u, "ok", "sync") :
      r \in SUBSET Observables, n \in Nodes \cup {"null"}, u \in UserOutcomes(funcName) }

\* a render that throws
BadRenders ==
  { In({}, FALSE, "null", e, "ok", "ok", "sync") : e \in Errors }

\* what a forceUpdate call may do
ForcedUpdates ==
  GoodRenders("componentDidUpdate") \cup BadRenders
    \cup { In({}, TRUE, "null", "none", "ok", "ok", "deferred") }
    \cup { In({}, FALSE, "null", e, "ok", "ok", "throw") : e \in Errors }

\* what the user's componentWillReact may do
HookOutcomes ==
  IF ~proto.componentWillReact THEN {"ok"}
  ELSE IF inst.phase = "mounted" THEN {"ok", "throw", "unmount"}
  ELSE {"ok", "throw"}

\* what one call of the reaction's callback may meet
Invalidations ==
  { [f EXCEPT !.hook = "ok"] : f \in ForcedUpdates }
    \cup { In({}, TRUE, "null", "none", "ok", "throw", "sync") : h \in HookOutcomes \cap {"throw"} }
    \cup { In({}, TRUE, "null", "none", u, "unmount", "deferred") :
             h \in HookOutcomes \cap {"unmount"}, u \in UserOutcomes("componentWillUnmount") }

\* the props and the state the host hands the instance
HostProps == { <<>>, <<[k |-> "a", v |-> "obj"]>> }
HostStates == {"s0"}

(***************************************************************************)
(* Initial state: the module is loaded, the user's class C is defined with *)
(* or without lifecycle hooks, a shouldComponentUpdate and a               *)
(* componentWillReact of its own; nothing is decorated or mounted.         *)
(***************************************************************************)
UserClass(userHooks, scu, willReact) ==
  [ hooks |-> [h \in HookNames |-> IF h \in userHooks THEN <<"user">> ELSE <<>>],
    shouldComponentUpdate |-> scu,
    isMobXReactObserver   |-> FALSE,
    componentWillReact    |-> willReact ]

\* the classes the user may have written: each pair of the three features
\* (own lifecycle hooks, own shouldComponentUpdate, componentWillReact)
\* occurs in every combination
UserClasses ==
  { UserClass({}, "none", FALSE),
    UserClass(HookNames, "none", TRUE),
    UserClass({}, "user", TRUE),
    UserClass(HookNames, "user", FALSE) }

Init ==
  /\ isDevtoolsEnabled = FALSE
  /\ isUsingStaticRendering = FALSE
  /\ componentByNodeRegistery = [n \in Nodes |-> "none"]
  /\ \E c \in UserClasses : proto = c
  /\ inst = NoInstance
  /\ hist = NoHistory
  /\ last = NoEffect("init")

(***************************************************************************)
(* Actions.                                                                *)
(***************************************************************************)
\* observer(arg1, arg2), called while the module's components are defined
Observer ==
  /\ inst.phase = "none"
  /\ \E arg1 \in Arg1Kinds, arg2 \in Arg2Kinds :
       /\ DecoratesClass(arg1, arg2) => Decorations(proto) < MaxDecorations
       /\ Commit(observer([World("observer") EXCEPT !.eff.args = <<arg1, arg2>>], arg1, arg2))

\* trackComponents(), called while instrumentation is still off
TrackComponents ==
  /\ ~isDevtoolsEnabled
  /\ Commit(trackComponents(World("trackComponents")))

\* useStaticRendering(b), called to change the mode
UseStaticRendering ==
  \E b \in BOOLEAN \ {isUsingStaticRendering} :
    Commit(useStaticRendering(World("useStaticRendering"), b))

\* the host constructs the instance and calls its componentWillMount
Mount ==
  /\ inst.phase = "none"
  /\ proto.isMobXReactObserver
  /\ \E p \in HostProps, u \in UserOutcomes("componentWillMount") :
       LET w0 == World("mount")
           w1 == [w0 EXCEPT !.inst.props = p]
           w2 == invokeHook(w1, "componentWillMount", u)
       IN  Commit([w2 EXCEPT !.inst.phase =
                     IF w2.eff.error = "none" THEN "willMount" ELSE "failed"])

\* the host calls this.render() for the first time
FirstRender ==
  /\ inst.phase = "willMount"
  /\ \E in \in GoodRenders("componentDidMount") \cup BadRenders :
       /\ in.user = "ok"
       /\ LET w1 == callRender(World("firstRender"), inst.render, in)
          IN  Commit(IF w1.eff.error = "none"
                       THEN [w1 EXCEPT !.inst.phase = "rendered", !.inst.node = in.node]
                       ELSE [w1 EXCEPT !.inst.phase = "failed"])

\* the host calls componentDidMount
DidMount ==
  /\ inst.phase = "rendered"
  /\ \E u \in UserOutcomes("componentDidMount") :
       LET w1 == invokeHook(World("didMount"), "componentDidMount", u)
       IN  Commit([w1 EXCEPT !.inst.phase = "mounted"])

\* the host's own update (new props or state): it asks shouldComponentUpdate,
\* unless a forced update is queued for the instance, and then re-renders
HostUpdate ==
  /\ inst.phase = "mounted"
  /\ \E nextProps \in HostProps, nextState \in HostStates :
       LET w0 == World("hostUpdate")
           asked == ~inst.forceQueued
           mixinGate == proto.shouldComponentUpdate = "mixin"
       IN  \E userSays \in IF asked /\ ~mixinGate THEN {"update", "skip"} ELSE {"update"} :
             LET w1 == IF ~asked THEN [w0 EXCEPT !.eff.ret = "update"]
                       ELSE IF mixinGate THEN shouldComponentUpdate(w0, nextProps, nextState)
                       ELSE [w0 EXCEPT !.eff.ret = userSays]
                 w2 == [w1 EXCEPT !.inst.props = nextProps, !.inst.state = nextState]
             IN  IF w2.eff.ret = "update"
                   THEN \E in \in GoodRenders("componentDidUpdate") \cup BadRenders :
                          Commit(performUpdate(w2, in))
                   ELSE Commit(w2)

\* the host performs the forced update it had queued
FlushForceUpdate ==
  /\ inst.phase = "mounted"
  /\ inst.forceQueued
  /\ \E in \in GoodRenders("componentDidUpdate") \cup BadRenders :
       Commit(performUpdate(World("flushForceUpdate"), in))

\* the host unmounts the instance
Unmount ==
  /\ inst.phase = "mounted"
  /\ \E u \in UserOutcomes("componentWillUnmount") :
       Commit(hostUnmount(World("unmount"), u))

\* the reactions subscribed to observable o
Subscribed(o) ==
  { k \in DOMAIN inst.closures :
      inst.closures[k].reaction = "live" /\ o \in inst.closures[k].deps }

\* observable o changes: the tracker calls the callback of each reaction
\* subscribed to it
Change ==
  /\ inst.phase # "none"
  /\ \E o \in Observables :
       LET w0 == [World("change") EXCEPT !.eff.args = <<o>>]
       IN  IF Subscribed(o) = {} THEN Commit(w0)
           ELSE \E k \in Subscribed(o) :
                  \E in \in IF inst.closures[k].isRenderingPending
                              THEN {NoInput} ELSE Invalidations :
                    Commit(onInvalidate(w0, k, in))

Next ==
  \/ Observer
  \/ TrackComponents
  \/ UseStaticRendering
  \/ Mount
  \/ FirstRender
  \/ DidMount
  \/ HostUpdate
  \/ FlushForceUpdate
  \/ Unmount
  \/ Change

Spec == Init /\ [][Next]_vars

\* the module with a host that eventually performs every forced update it
\* has queued
SpecLive == Spec /\ WF_vars(FlushForceUpdate)

(***************************************************************************)
(* The Update Gate on its own: a mounted instance of a decorated class     *)
(* with any props and state; the host delivers any next props and next     *)
(* state, and the mode is switched at will.                                *)
(***************************************************************************)
GateInit ==
  /\ isDevtoolsEnabled = FALSE
  /\ isUsingStaticRendering = FALSE
  /\ componentByNodeRegistery = [n \in Nodes |-> "none"]
  /\ proto = decorate(UserClass({}, "none", FALSE))
  /\ \E props \in PropObjects, state \in StateRefs :
       inst = [NoInstance EXCEPT !.phase = "mounted", !.props = props, !.state = state]
  /\ hist = NoHistory
  /\ last = NoEffect("init")

\* the host has new props and state for the instance: it calls
\* instance.shouldComponentUpdate(nextProps, nextState), then assigns them
GateCall ==
  \E nextProps \in PropObjects, nextState \in StateRefs :
    LET w1 == shouldComponentUpdate(World("shouldComponentUpdate"), nextProps, nextState)
    IN  Commit([w1 EXCEPT !.inst.props = nextProps, !.inst.state = nextState])

GateStatic ==
  \E b \in BOOLEAN \ {isUsingStaticRendering} :
    Commit(useStaticRendering(World("useStaticRendering"), b))

GateNext ==
  \/ GateCall
  \/ GateStatic

SpecGate == GateInit /\ [][GateNext]_vars

(***************************************************************************)
(* Helpers of the properties.                                              *)
(***************************************************************************)
\* the instance is mounted and its (innermost) reaction is alive
Tracked ==
  /\ inst.phase = "mounted"
  /\ inst.closures # <<>>
  /\ inst.closures[1].reaction = "live"

\* in a step: the callback of closure k was called
Invalidated(k) == last'.op = "change" /\ last'.invalidated = k

\* only the innermost closure's reaction ever observes anything
OnlyInnermostObserves ==
  \A k \in DOMAIN inst.closures : k > 1 => inst.closures[k].deps = {}

C1_PendingDoesNothing ==
  \A k \in DOMAIN inst.closures :
    (inst.closures[k].isRenderingPending /\ Invalidated(k)) =>
      /\ inst' = inst
      /\ last'.fu = 0 /\ last'.renders = 0 /\ last'.hookResult = "none"
      /\ last'.error = "none" /\ last'.events = <<>>

C2_DisposalTerminal ==
  /\ [][hist.willUnmountRan => (last'.fu = 0 /\ last'.renders = 0)]_vars
  /\ [][inst.mobxIsUnmounted => inst'.mobxIsUnmounted]_vars

\* what does hold: an instance whose unmounted flag is set is left alone
C2_FlaggedIsTerminal ==
  /\ [][inst.mobxIsUnmounted => (last'.fu = 0 /\ last'.renders = 0)]_vars
  /\ [][inst.mobxIsUnmounted => inst'.mobxIsUnmounted]_vars

(***************************************************************************)
(* C3. Update Gate.  shouldComponentUpdate answers "skip" if and only if   *)
(* the state reference is unchanged, the number of prop keys is unchanged, *)
(* every prop value is reference-equal and no prop value is a              *)
(* non-observable object; in static and non-static mode alike.             *)
(***************************************************************************)
\* the four conditions of the claim
GateConditions(props, state, nextProps, nextState) ==
  /\ state = nextState
  /\ Len(props) = Len(nextProps)
  /\ \A i \in DOMAIN props : Get(nextProps, props[i].k) = props[i].v
  /\ \A i \in DOMAIN nextProps : Get(props, nextProps[i].k) = nextProps[i].v
  /\ \A i \in DOMAIN nextProps : ~(IsObjectType(nextProps[i].v) /\ ~isObservable(nextProps[i].v))

C3_UpdateGate ==
  [][last'.op = "shouldComponentUpdate" =>
       (last'.ret = "skip" <=> GateConditions(inst.props, inst.state, inst'.props, inst'.state))]_vars

(***************************************************************************)
(* C4. Forced-update error safety.  When the forceUpdate the callback      *)
(* calls throws, the callback's reaction is disposed when the error leaves *)
(* the callback, the error that leaves is the one forceUpdate threw, and   *)
(* from then on no change of an observable requests a forceUpdate or runs  *)
(* a render of the instance; when forceUpdate returns, the reaction is not *)
(* disposed.                                                               *)
(***************************************************************************)
\* in a step: an observable changed
Changed == last'.op = "change"

C4_ForcedUpdateErrorSafety ==
  /\ [](last.fuError # "none" =>
          /\ last.error = last.fuError
          /\ inst.closures[last.invalidated].reaction = "disposed"
          /\ inst.closures[last.invalidated].deps = {}
          /\ hist.fuFailed)
  /\ []((last.fu = 1 /\ last.fuError = "none") =>
          /\ last.error = "none"
          /\ inst.closures[last.invalidated].reaction = "live")
  /\ [][(hist.fuFailed /\ Changed) =>
          (last'.invalidated = 0 /\ last'.fu = 0 /\ last'.renders = 0 /\ last'.baseRenders = 0)]_vars
  /\ [][hist.fuFailed => hist'.fuFailed]_vars

\* a forced update has thrown out of the callback of a mounted instance
C4_Witness ==
  /\ last.op = "change"
  /\ last.fuError \in Errors
  /\ last.renders = 1
  /\ inst.phase = "mounted"
  /\ inst.closures[1].reaction = "disposed"

(***************************************************************************)
(* C5. Static-mode bypass.  For an instance whose componentWillMount ran   *)
(* while static rendering was active: this.render stays the class's own    *)
(* render, no Reaction is ever created, and no change of an observable     *)
(* requests a forceUpdate or runs a render; the warning is emitted only in *)
(* a call of shouldComponentUpdate by the host.                            *)
(***************************************************************************)
C5_StaticBypass ==
  /\ [](hist.mountMode = "static" =>
          /\ inst.render = [kind |-> "base", k |-> 0]
          /\ inst.closures = <<>>
          /\ hist.created = 0
          /\ last.renders = 0
          /\ last.fu = 0)
  /\ [][(hist.mountMode = "static" /\ Changed) =>
          (last'.invalidated = 0 /\ last'.fu = 0 /\ last'.renders = 0 /\ last'.baseRenders = 0)]_vars
  /\ [](last.warned => (last.gate /\ last.op = "hostUpdate"))

\* an observable changes for a mounted instance that was mounted in static
\* mode, after static rendering has been switched off again
C5_Witness ==
  /\ hist.mountMode = "static"
  /\ inst.phase = "mounted"
  /\ ~isUsingStaticRendering
  /\ last.op = "change"

(***************************************************************************)
(* C6. Dependency precision.  For a mounted, tracked instance whose most   *)
(* recent render read x and not y: a change of y calls no callback and     *)
(* runs no render, a change of x leads to exactly one re-render; the       *)
(* reaction's dependencies are those the most recent execution of the      *)
(* reactive render wrapper recorded, not those of an earlier one.          *)
(***************************************************************************)
\* the instance is tracked and the last execution of the wrapper returned
TrackedAfterRender == Tracked /\ ~hist.renderThrew

\* in a step: the observable that changed
ChangedObservable == last'.args[1]

FunctionsRun == [i \in DOMAIN last.calls |-> last.calls[i].fn]

C7_PatchAppends ==
  (last'.op = "observer" /\ proto' # proto) =>
    \A h \in HookNames : proto'.hooks[h] = proto.hooks[h] \o <<"mixin">>

C8_RegistryCleanup ==
  (/\ last.hookName = "componentWillUnmount"
   /\ last.error = "none"
   /\ isDevtoolsEnabled
   /\ Decorations(proto) = 1)
    => /\ inst.node # "null" => componentByNodeRegistery[inst.node] = "none"
       /\ last.events = <<[event |-> "destroy", component |-> "inst", node |-> inst.node]>>

(***************************************************************************)
(* C9. The tracker-driven forced update always proceeds.  A callback call  *)
(* on a mounted instance with no render pending leads to a re-render       *)
(* through forceUpdate, and the Update Gate is not consulted: the          *)
(* re-render runs also where shouldComponentUpdate would answer "skip".    *)
(***************************************************************************)
\* in a step: the callback was called for a mounted instance with no render pending
HandledInvalidation ==
  /\ inst.phase = "mounted"
  /\ Changed
  /\ last'.invalidated # 0
  /\ ~inst.closures[last'.invalidated].isRenderingPending

StringAsStoreNames(args) ==
  args[1] = "string" \/ (args[1] = "array" /\ args[2] = "string")

\* observer() was called with no decoration target and no store names
AbsentTarget(args) == args[1] \in {"null", "falsy"}

\* observer() was called with store names and no decoration target
StoreNamesOnly(args) == args[1] = "array" /\ args[2] = "absent"

\* the claim as stated: each of these calls raises an error
C10_AsStated ==
  (/\ last.op = "observer"
   /\ StringAsStoreNames(last.args) \/ AbsentTarget(last.args) \/ StoreNamesOnly(last.args))
    => last.error # "none"

\* C10 as amended: a string as store names, or an absent target without
\* store names, raises an error; store names with an absent target return a
\* decorator and raise nothing; in all of these nothing is patched or
\* marked, and no other call raises an error
C10_UsageErrors ==
  [][last'.op = "observer" =>
       /\ StringAsStoreNames(last'.args) => last'.error = "StoreNamesError"
       /\ AbsentTarget(last'.args) => last'.error \in {"TypeError", "InvalidComponentError"}
       /\ StoreNamesOnly(last'.args) => (last'.error = "none" /\ last'.ret = "decorator")
       /\ last'.error # "none" <=> (StringAsStoreNames(last'.args) \/ AbsentTarget(last'.args))
       /\ (last'.error # "none" \/ last'.ret = "decorator") =>
            (proto' = proto /\ last'.made = NoWrapper /\ inst' = inst)]_vars

\* a call with a string as store names has failed and left the class, which
\* an earlier call decorated, as it was
C10_Witness ==
  /\ last.op = "observer"
  /\ last.args = <<"string", "absent">>
  /\ last.error = "StoreNamesError"
  /\ Decorations(proto) = 1
  /\ proto.isMobXReactObserver

(***************************************************************************)
(* C11. Static mode short-circuits the mixin entirely.  While static       *)
(* rendering is active, a call of the mixin's componentWillMount,          *)
(* componentDidMount, componentDidUpdate or componentWillUnmount changes   *)
(* no tracking state, adds or removes no registry association and          *)
(* publishes no event, with devtools instrumentation on or off.            *)
(***************************************************************************)
\* the tracking state of the instance
TrackingState == <<inst.render, inst.closures, inst.mobxIsUnmounted>>

\* in a step: the host called a lifecycle hook and nothing else of the instance
HookOnly == last'.op \in {"mount", "didMount", "unmount"}

C11_StaticShortCircuit ==
  [][(isUsingStaticRendering /\ last'.hookName # "none") =>
       /\ componentByNodeRegistery' = componentByNodeRegistery
       /\ last'.events = <<>>
       /\ HookOnly => TrackingState' = TrackingState]_vars

(***************************************************************************)
(* C12. One computation per live instance.  In every reachable state an    *)
(* instance mounted in non-static mode that has rendered owns exactly one  *)
(* undisposed Reaction, created by its first render and never created      *)
(* again; an instance that has been unmounted owns none.  (Stated for a    *)
(* class decorated once, an instance no forced update of which has failed, *)
(* and an unmount in which the mixin's componentWillUnmount ran.)          *)
(***************************************************************************)
\* the undisposed Reactions the instance's closures hold
LiveReactions ==
  {k \in DOMAIN inst.closures : inst.closures[k].reaction = "live"}

C12_OneComputation ==
  (Decorations(proto) = 1 /\ hist.mountMode = "tracked") =>
    /\ (inst.phase \in {"rendered", "mounted"} /\ ~hist.fuFailed) =>
         (Cardinality(LiveReactions) = 1 /\ hist.created = 1)
    /\ (inst.phase = "unmounted" /\ hist.willUnmountRan) => LiveReactions = {}

\* what does hold: the same, for an unmount with static rendering off
C12_OneComputationNonStatic ==
  (Decorations(proto) = 1 /\ hist.mountMode = "tracked") =>
    /\ (inst.phase \in {"rendered", "mounted"} /\ ~hist.fuFailed) =>
         (Cardinality(LiveReactions) = 1 /\ hist.created = 1)
    /\ (inst.phase = "unmounted" /\ inst.mobxIsUnmounted) => LiveReactions = {}

HookThrew ==
  \/ last.hookResult = "throw"
  \/ last.hookResult = "unmount" /\ last.error # "none"

\* in a step: the callback is called with no render pending
CalledNotPending ==
  /\ Changed
  /\ last'.invalidated # 0
  /\ ~inst.closures[last'.invalidated].isRenderingPending

InFlight == hist.fuSinceRender

C14_AtMostOneInFlight ==
  /\ [](InFlight \in {0, 1})
  /\ [](InFlight = 1 =>
          \E k \in DOMAIN inst.closures : inst.closures[k].isRenderingPending)
  /\ [][(InFlight = 1 /\ Changed) => (last'.fu = 0 /\ InFlight' = 1)]_vars
  /\ [][(InFlight = 1 /\ last'.op \in {"hostUpdate", "flushForceUpdate"} /\ last'.renders >= 1) =>
          (InFlight' = 0 /\ ~inst'.forceQueued)]_vars

\* a host-driven re-render has run the wrapper while a deferred forced
\* update was queued: nothing is in flight any more
C14_Witness ==
  /\ last.op = "hostUpdate"
  /\ last.renders = 1
  /\ last.gate = FALSE
  /\ proto.shouldComponentUpdate = "mixin"
  /\ InFlight = 0
  /\ ~inst.forceQueued
  /\ Tracked

(***************************************************************************)
(* C15. Pending-flag meaning.  In every reachable state of a tracked       *)
(* instance the pending-render flag is true only if the callback has been  *)
(* called and a forced render has been requested for it and has not yet    *)
(* run: the flag is never left true with no forced render outstanding,     *)
(* whether componentWillReact returns, throws or unmounts the instance.    *)
(***************************************************************************)
\* a forced render has been requested and is still to be run by the host
ForcedRenderOutstanding ==
  /\ hist.invSinceRender >= 1
  /\ hist.fuSinceRender = 1
  /\ inst.forceQueued

C15_PendingFlagMeaning ==
  Tracked =>
    \A k \in DOMAIN inst.closures :
      inst.closures[k].isRenderingPending => ForcedRenderOutstanding

\* what does hold: the same, unless componentWillReact threw
C15_PendingFlagUnlessHookThrew ==
  (Tracked /\ ~hist.hookThrew) =>
    \A k \in DOMAIN inst.closures :
      inst.closures[k].isRenderingPending => ForcedRenderOutstanding

(***************************************************************************)
(* C16. Render-error leak safety.  Whenever a render of a tracked instance *)
(* ends with an error (the initial render, a host-driven re-render or a    *)
(* render forced by the callback), the instance's Reaction is disposed.    *)
(***************************************************************************)
\* the last step ran the reactive render wrapper and a render error ended it
RenderFailed == last.renders >= 1 /\ last.error \in Errors

C16_RenderErrorLeakSafety ==
  RenderFailed => inst.closures[1].reaction = "disposed"

\* what does hold: a render error that leaves through the callback's
\* forceUpdate call disposes the Reaction
C16_ForcedRenderErrorDisposes ==
  (RenderFailed /\ last.op = "change") => inst.closures[1].reaction = "disposed"

(***************************************************************************)
(* C17. Decoration applies the Update Gate and marks the component.  After *)
(* observer(component) has returned, the component's shouldComponentUpdate *)
(* is the mixin's Update Gate and the component is marked as an observer;  *)
(* no hook but the four lifecycle hooks and shouldComponentUpdate changes. *)
(***************************************************************************)
\* observer() returned a component
Decorated(eff) ==
  eff.op = "observer" /\ eff.error = "none" /\ eff.ret \in {"component", "injected"}

\* the claim as stated
C17_AsStated ==
  Decorated(last) =>
    LET target == IF last.made.made THEN last.made ELSE proto
    IN  target.shouldComponentUpdate = "mixin" /\ target.isMobXReactObserver

\* C17 as amended: the Update Gate is installed where the component has no
\* shouldComponentUpdate of its own, which is otherwise kept
C17_DecorationAppliesGate ==
  [][Decorated(last') =>
       LET before == IF last'.made.made THEN createClass ELSE proto
           after == IF last'.made.made THEN last'.made ELSE proto'
       IN  /\ after.isMobXReactObserver
           /\ after.shouldComponentUpdate =
                IF before.shouldComponentUpdate = "none" THEN "mixin"
                ELSE before.shouldComponentUpdate
           /\ proto'.componentWillReact = proto.componentWillReact
           /\ last'.made.made => proto' = proto]_vars

\* a class with a shouldComponentUpdate of its own has been decorated: it
\* is marked and keeps its shouldComponentUpdate
C17_Witness ==
  /\ Decorated(last)
  /\ last.args = <<"class", "absent">>
  /\ proto.isMobXReactObserver
  /\ proto.shouldComponentUpdate = "user"
  /\ proto.componentWillReact

(***************************************************************************)
(* C18. No lost update.  For an instance that stays mounted with its       *)
(* Reaction undisposed, every change of a dependency of its most recent    *)
(* render is eventually followed by an execution of the reactive render    *)
(* wrapper that starts after the change, given a host that eventually      *)
(* performs every forced update requested; also for a change that arrives  *)
(* after a callback call in which componentWillReact threw.                *)
(***************************************************************************)
\* a dependency has changed since the wrapper last ran
RenderOwed == Tracked /\ hist.invSinceRender >= 1

C18_NoLostUpdate ==
  RenderOwed ~> (hist.invSinceRender = 0 \/ ~Tracked)


(***************************************************************************)
(* C19. Repeated decoration is idempotent-safe.  An instance of a class    *)
(* to which observer() was applied twice behaves as one of a class         *)
(* decorated once: a mount creates exactly one Reaction, which is disposed *)
(* at unmount; a render publishes at most one "render" event and an        *)
(* unmount at most one "destroy" event; the user's own hook runs exactly   *)
(* once, before the mixin's.                                               *)
(***************************************************************************)
\* how many of the functions a hook call ran were the user's
UserCalls == Cardinality({i \in DOMAIN last.calls : last.calls[i].fn = "user"})

C19_RepeatedDecoration ==
  Decorations(proto) = 2 =>
    /\ hist.created <= 1
    /\ inst.phase \in {"rendered", "mounted"} => hist.created = 1
    /\ (inst.phase = "unmounted" /\ inst.mobxIsUnmounted) => LiveReactions = {}
    /\ Len(last.events) <= 1
    /\ (last.hookName # "none" /\ HasUserHook(last.hookName)) =>
         (UserCalls = 1 /\ last.calls[1].fn = "user")

\* what does hold: the user's own hook still runs exactly once, and first
C19_UserHookOnceAndFirst ==
  (last.hookName # "none" /\ HasUserHook(last.hookName)) =>
    (UserCalls = 1 /\ last.calls[1].fn = "user")

(***************************************************************************)
(* C20. Update Gate soundness of "skip".  Whenever shouldComponentUpdate   *)
(* returns false, the current and the next props have the same set of keys *)
(* and, for every key of either, reference-equal values.                   *)
(***************************************************************************)
\* the set of keys of a props object
KeySet(obj) == {obj[i].k : i \in DOMAIN obj}

\* the two props objects have the same keys with the same values
ShallowEqual(props, nextProps) ==
  /\ KeySet(props) = KeySet(nextProps)
  /\ \A key \in KeySet(props) \cup KeySet(nextProps) : Get(props, key) = Get(nextProps, key)

C20_SkipIsSound ==
  [][(last'.op = "shouldComponentUpdate" /\ last'.ret = "skip") =>
       ShallowEqual(inst.props, inst'.props)]_vars

\* what does hold: a skip is sound for props without the key "" whose keys
\* are also keys of the next props
C20_SkipIsSoundForOrdinaryKeys ==
  [][(/\ last'.op = "shouldComponentUpdate"
      /\ last'.ret = "skip"
      /\ "" \notin KeySet(inst.props)
      /\ KeySet(inst.props) \subseteq KeySet(inst'.props)) =>
       ShallowEqual(inst.props, inst'.props)]_vars

====
